---- MODULE Spec2Model ----
(***************************************************************************)
(* Model of qguv/agile: the Android layout lexer (android.py, agilex.py).  *)
(*                                                                         *)
(* Python strings are sequences of one-character strings, so that          *)
(* endswith, startswith, partition, split and int() are computed the way   *)
(* the interpreter computes them.  Python objects are tagged records:      *)
(*   [t |-> "None"], [t |-> "str", s |-> chars], [t |-> "int", n |-> k],   *)
(*   [t |-> "Dip", n |-> k], [t |-> "ResultSet"], ...                      *)
(* The outcome of a call is [ok |-> TRUE, v |-> value] when it returns and *)
(* [ok |-> FALSE, exc |-> name] when it raises the exception class `name`. *)
(***************************************************************************)
EXTENDS Integers, Sequences, FiniteSets, TLC

VARIABLES call, pc, ret, opened, cache, runs, table

vars == <<call, pc, ret, opened, cache, runs, table>>

-----------------------------------------------------------------------------
(* Bounds of the model.                                                    *)

MaxNum == 72

MaxLen == 5

MaxInchNum == 40

MaxDip == 60

MaxKids == 2

MaxBatch == 2

MaxTexts == 128

MaxRuns == 2

MaxEarlyTexts == 2
\* the longest sequence assigned to the children of a TableLayout
MaxRows == 3
\* the most children of the root of a document given to countTags
MaxTags == 3

-----------------------------------------------------------------------------
(* Python values and outcomes.                                             *)

None == [t |-> "None"]

Str(chars) == [t |-> "str", s |-> chars]

IntV(k) == [t |-> "int", n |-> k]

DipV(k) == [t |-> "Dip", n |-> k]

Return(v) == [ok |-> TRUE, v |-> v]

Raise(e) == [ok |-> FALSE, exc |-> e]

-----------------------------------------------------------------------------
(* str methods.                                                            *)

startswith(s, pre) ==
    /\ Len(pre) <= Len(s)
    /\ SubSeq(s, 1, Len(pre)) = pre

endswith(s, end) ==
    /\ Len(end) <= Len(s)
    /\ SubSeq(s, Len(s) - Len(end) + 1, Len(s)) = end

\* str.find: index (1-based) of the FIRST occurrence of sep in s, 0 if none
find(s, sep) ==
    LET hits == { i \in 1..(Len(s) - Len(sep) + 1) :
                      SubSeq(s, i, i + Len(sep) - 1) = sep }
    IN  IF hits = {} THEN 0
        ELSE CHOOSE i \in hits : \A j \in hits : i <= j

\* s.partition(sep)[0]: the text before the first occurrence of sep
partitionHead(s, sep) ==
    IF find(s, sep) = 0 THEN s ELSE SubSeq(s, 1, find(s, sep) - 1)

\* s.replace(' ', '')
removeSpaces(s) == SelectSeq(s, LAMBDA c : c # " ")

\* value.split('/', 1): a sequence of one or two strings
split1(s, sep) ==
    IF find(s, sep) = 0 THEN <<s>>
    ELSE <<SubSeq(s, 1, find(s, sep) - 1),
           SubSeq(s, find(s, sep) + Len(sep), Len(s))>>

-----------------------------------------------------------------------------
(* int(str) and str(int).                                                  *)

DigitChars == <<"0", "1", "2", "3", "4", "5", "6", "7", "8", "9">>

IsDigit(c) == \E i \in 1..10 : DigitChars[i] = c

DigitVal(c) == (CHOOSE i \in 1..10 : DigitChars[i] = c) - 1

Whitespace == {" ", "\t", "\n"}

RECURSIVE strip(_)
strip(s) ==
    IF s = <<>> THEN s
    ELSE IF Head(s) \in Whitespace THEN strip(Tail(s))
    ELSE IF s[Len(s)] \in Whitespace THEN strip(SubSeq(s, 1, Len(s) - 1))
    ELSE s

\* digits with single underscores between them, as int() accepts
IsDigitRun(s) ==
    /\ s # <<>>
    /\ IsDigit(s[1]) /\ IsDigit(s[Len(s)])
    /\ \A i \in 1..Len(s) : IsDigit(s[i]) \/ s[i] = "_"
    /\ \A i \in 1..(Len(s) - 1) : ~(s[i] = "_" /\ s[i + 1] = "_")

RECURSIVE DigitRunVal(_, _)
DigitRunVal(s, acc) ==
    IF s = <<>> THEN acc
    ELSE IF Head(s) = "_" THEN DigitRunVal(Tail(s), acc)
    ELSE DigitRunVal(Tail(s), 10 * acc + DigitVal(Head(s)))

\* int(s) for a str s: Return(k) or ValueError
int(s) ==
    LET t    == strip(s)
        sign == IF t # <<>> /\ Head(t) = "-" THEN -1 ELSE 1
        body == IF t # <<>> /\ Head(t) \in {"-", "+"} THEN Tail(t) ELSE t
    IN  IF IsDigitRun(body) THEN Return(sign * DigitRunVal(body, 0))
        ELSE Raise("ValueError")

RECURSIVE natstr(_)
natstr(k) ==
    IF k < 10 THEN <<DigitChars[k + 1]>>
    ELSE natstr(k \div 10) \o <<DigitChars[(k % 10) + 1]>>

\* str(k) for an int k
str(k) == IF k < 0 THEN <<"-">> \o natstr(-k) ELSE natstr(k)

-----------------------------------------------------------------------------
(* Numbers.  A Python float that holds a fraction is the exact rational    *)
(* [num, den] with den > 0; round() is round-half-to-even.                 *)

Rat(p, q) == [num |-> p, den |-> q]

\* round(p / q), q > 0
round(p, q) ==
    LET f == p \div q
        r == p % q
    IN  IF 2 * r < q THEN f
        ELSE IF 2 * r > q THEN f + 1
        ELSE IF f % 2 = 0 THEN f ELSE f + 1

-----------------------------------------------------------------------------
(* class Dip(int).                                                         *)

toInches(d) == Rat(d, 160)

toPoints(d) == round(toInches(d).num * 72, toInches(d).den)

\* round(self * densityScalar), densityScalar a ratio
toPixels(d, scalar) == round(d * scalar.num, scalar.den)

\* Dip.fromPixels with pixels * densityScalar in place of the division
fromPixels_scaled(pixels, scalar) == round(pixels * scalar.num, scalar.den)

\* round(pixels / densityScalar), densityScalar a positive ratio
fromPixels(pixels, scalar) == round(pixels * scalar.den, scalar.num)

fromSp(sp) == sp

fromInches_scale16(inches) == round(inches.num * 16, inches.den)

fromInches(inches) == round(inches.num * 160, inches.den)

fromPoints(points) == fromInches(Rat(points, 72))

fromPicas(picas) == fromInches(Rat(picas, 6))

\* round(|mm| * 6.299212598432): mm * 3.93700787402e-2 * 160, computed in
\* base-10^4 limbs (6 . 2992 1259 8432) to stay within 32-bit integers
mmRoundAbs(a) ==
    LET l0 == a * 8432
        l1 == a * 1259 + (l0 \div 10000)
        l2 == a * 2992 + (l1 \div 10000)
        l3 == a * 6 + (l2 \div 10000)
        r0 == l0 % 10000
        r1 == l1 % 10000
        r2 == l2 % 10000
        above == r2 > 5000 \/ (r2 = 5000 /\ (r1 > 0 \/ r0 > 0))
        half  == r2 = 5000 /\ r1 = 0 /\ r0 = 0
    IN  IF above THEN l3 + 1
        ELSE IF half /\ l3 % 2 = 1 THEN l3 + 1
        ELSE l3

fromMillimeters(mm) == IF mm < 0 THEN -mmRoundAbs(-mm) ELSE mmRoundAbs(mm)

fromCentimeters_unscaled(cm) == fromMillimeters(cm)

fromCentimeters(cm) == fromMillimeters(cm * 10)

\* the keys of the dispatch table of Dip.fromAndroid, in insertion order
Sfx_dp  == <<"d", "p">>
Sfx_dip == <<"d", "i", "p">>
Sfx_sp  == <<"s", "p">>
Sfx_sip == <<"s", "i", "p">>
Sfx_in  == <<"i", "n">>
Sfx_mm  == <<"m", "m">>
Sfx_cm  == <<"c", "m">>
Sfx_pt  == <<"p", "t">>
Sfx_pc  == <<"p", "c">>

dispatchEnds ==
    <<Sfx_dp, Sfx_dip, Sfx_sp, Sfx_sip, Sfx_in, Sfx_mm, Sfx_cm, Sfx_pt, Sfx_pc>>

\* dispatch[end](num)
dispatchFn(end, num) ==
    IF end \in {Sfx_dp, Sfx_dip, Sfx_sp, Sfx_sip} THEN num
    ELSE IF end = Sfx_in THEN fromInches(Rat(num, 1))
    ELSE IF end = Sfx_mm THEN fromMillimeters(num)
    ELSE IF end = Sfx_cm THEN fromCentimeters(num)
    ELSE IF end = Sfx_pt THEN fromPoints(num)
    ELSE fromPicas(num)

\* the first key of the table that s ends with (0 if none): where the for
\* loop breaks
matchedEnd(s) ==
    LET hits == { i \in 1..Len(dispatchEnds) : endswith(s, dispatchEnds[i]) }
    IN  IF hits = {} THEN 0
        ELSE CHOOSE i \in hits : \A j \in hits : i <= j

fromAndroid_strChars(s0) ==
    LET s == removeSpaces(s0)
        k == matchedEnd(s)
    IN  IF k = 0 THEN Raise("ValueError")
        ELSE LET end == dispatchEnds[k]
                 num == int(partitionHead(s, end))
             IN  IF ~num.ok THEN num
                 ELSE Return(DipV(dispatchFn(end, num.v)))

\* Dip.fromAndroid(s) for any Python value s: only a str has .replace
fromAndroid(val) ==
    IF val.t = "str" THEN fromAndroid_strChars(val.s)
    ELSE Raise("AttributeError")

-----------------------------------------------------------------------------
(* class AndroidDevice.                                                    *)

AndroidDevice(dpi, w, h) ==
    [t |-> "AndroidDevice", densityDpi |-> dpi,
     widthPixels |-> w, heightPixels |-> h]

\* devices.py: the Galaxy S3 profile
galaxyS3 == AndroidDevice(IntV(306), IntV(720), IntV(1280))

\* AndroidDevice() with the class defaults
blankDevice == AndroidDevice(None, None, None)

\* AndroidDevice.densityScalar: densityDpi / 160 as a ratio
densityScalar(dev) ==
    IF dev.densityDpi = None THEN Raise("ValueError")
    ELSE Return(Rat(dev.densityDpi.n, 160))

\* AndroidDevice.width / AndroidDevice.height: px is widthPixels or
\* heightPixels
devicePixelsToDip(dev, px) ==
    IF ~densityScalar(dev).ok THEN densityScalar(dev)
    ELSE IF px = None THEN Raise("TypeError")
    ELSE Return(DipV(fromPixels(px.n, densityScalar(dev).v)))

-----------------------------------------------------------------------------
(* Attribute access obj.name, as the lambdas handed to inheritProperty     *)
(* and inheritable do it.                                                  *)

getattr(obj, name) ==
    IF obj.t = "AndroidDevice"
    THEN IF name = "width" THEN devicePixelsToDip(obj, obj.widthPixels)
         ELSE IF name = "height" THEN devicePixelsToDip(obj, obj.heightPixels)
         ELSE Raise("AttributeError")
    ELSE IF obj.t = "LinearLayout" /\ name \in DOMAIN obj
    THEN Return(obj[name])
    ELSE Raise("AttributeError")

match_parent == <<"m", "a", "t", "c", "h", "_", "p", "a", "r", "e", "n", "t">>

fill_parent == <<"f", "i", "l", "l", "_", "p", "a", "r", "e", "n", "t">>

wrap_content == <<"w", "r", "a", "p", "_", "c", "o", "n", "t", "e", "n", "t">>

IsInheritSentinel(value) ==
    value \in {Str(match_parent), Str(fill_parent)}

inheritable_matchOnly(value, parent, getFn) ==
    IF value = Str(match_parent) THEN getattr(parent, getFn)
    ELSE Return(value)

\* agilex.inheritable
inheritable(value, parent, getFn) ==
    IF IsInheritSentinel(value) THEN getattr(parent, getFn)
    ELSE Return(value)

inheritProperty_lenient(value, parent, getFn) ==
    IF IsInheritSentinel(value) THEN getattr(parent, getFn)
    ELSE Return(value)

\* android.inheritProperty
inheritProperty(value, parent, getFn) ==
    IF IsInheritSentinel(value) THEN getattr(parent, getFn)
    ELSE Raise("AttributeError")

-----------------------------------------------------------------------------
(* android.resource.  A resource directory is None or                      *)
(* [t |-> "dir", files |-> function from file names to documents]; a       *)
(* document is [root |-> tag name of the root element, elems |-> the       *)
(* root's children, each [tag, name, string]].                             *)

Dir(files) == [t |-> "dir", files |-> files]

Doc(root, elems) == [root |-> root, elems |-> elems]

Elem(tag, name, string) == [tag |-> tag, name |-> name, string |-> string]

\* rsoup.find(name=key): the first element whose TAG is key, 0 if none
findByTag(elems, key) ==
    LET hits == { i \in 1..Len(elems) : elems[i].tag = key }
    IN  IF hits = {} THEN 0
        ELSE CHOOSE i \in hits : \A j \in hits : i <= j

\* bs(f).find("resources") then rsoup.find(name=key).string
lookup(doc, key) ==
    IF doc.root # <<"r", "e", "s", "o", "u", "r", "c", "e", "s">> THEN Raise("AttributeError")
    ELSE IF findByTag(doc.elems, key) = 0 THEN Raise("AttributeError")
    ELSE Return(doc.elems[findByTag(doc.elems, key)].string)

\* value.replace("@+", '', 1) is evaluated and its result dropped, so the
\* split is of value itself
resourceParts(value) == split1(value.s, <<"/">>)

resourceFile(value) == resourceParts(value)[1] \o <<".", "x", "m", "l">>

\* does android.resource get as far as filename.open('r') and succeed
resourceReaches(value, resourcesPath) ==
    /\ value # None
    /\ ~startswith(value.s, <<"@", "+", "i", "d">>)
    /\ startswith(value.s, <<"@", "+">>)
    /\ Len(resourceParts(value)) = 2
    /\ resourcesPath # None
    /\ resourceFile(value) \in DOMAIN resourcesPath.files

\* the files android.resource opens
resourceOpens(value, resourcesPath) ==
    IF resourceReaches(value, resourcesPath)
    THEN {resourceFile(value)} ELSE {}

resource_noneUnchecked(value, resourcesPath) ==
    IF value = None THEN Raise("AttributeError")
    ELSE IF startswith(value.s, <<"@", "+", "i", "d">>) THEN Raise("AssertionError")
    ELSE IF ~startswith(value.s, <<"@", "+">>) THEN Return(value)
    ELSE IF Len(resourceParts(value)) # 2 THEN Raise("ValueError")
    ELSE IF resourcesPath = None THEN Raise("TypeError")
    ELSE IF resourceFile(value) \notin DOMAIN resourcesPath.files
         THEN Raise("FileNotFoundError")
    ELSE lookup(resourcesPath.files[resourceFile(value)],
                resourceParts(value)[2])

resource(value, resourcesPath) ==
    IF value = None THEN Return(None)
    ELSE IF startswith(value.s, <<"@", "+", "i", "d">>) THEN Raise("AssertionError")
    ELSE IF ~startswith(value.s, <<"@", "+">>) THEN Return(value)
    ELSE IF Len(resourceParts(value)) # 2 THEN Raise("ValueError")
    ELSE IF resourcesPath = None THEN Raise("TypeError")
    ELSE IF resourceFile(value) \notin DOMAIN resourcesPath.files
         THEN Raise("FileNotFoundError")
    ELSE lookup(resourcesPath.files[resourceFile(value)],
                resourceParts(value)[2])

-----------------------------------------------------------------------------
(* The soup: a node of the parsed XML document is a Tag with a name, its   *)
(* attributes (a function from attribute names to strings) and its         *)
(* children, or a NavigableString (text, comment).                         *)

Tag(name, attrs, kids) ==
    [k |-> "Tag", name |-> name, attrs |-> attrs, kids |-> kids]

NavigableString(text) == [k |-> "NavigableString", text |-> text]

\* soup[key]
soupItem(soup, key) ==
    IF key \in DOMAIN soup.attrs THEN Return(Str(soup.attrs[key]))
    ELSE Raise("KeyError")

\* soup.get(key, default)
soupGet(soup, key, default) ==
    IF key \in DOMAIN soup.attrs THEN Str(soup.attrs[key]) ELSE default

RECURSIVE descendants(_)
\* soup.descendants, in document order
descendants(soup) ==
    LET RECURSIVE from(_)
        from(i) ==
            IF i > Len(soup.kids) THEN <<>>
            ELSE <<soup.kids[i]>>
                 \o (IF soup.kids[i].k = "Tag"
                     THEN descendants(soup.kids[i]) ELSE <<>>)
                 \o from(i + 1)
    IN  from(1)

\* soup(name, None), that is soup.find_all(name, None): the ResultSet of the
\* descendant tags called name
findAll(soup, name) ==
    [t |-> "ResultSet",
     items |-> SelectSeq(descendants(soup),
                         LAMBDA n : n.k = "Tag" /\ n.name = name)]

\* soup.find_all(True): the descendant tags, in document order
findAllTags(soup) ==
    SelectSeq(descendants(soup), LAMBDA n : n.k = "Tag")

\* tagCount.get(key, 0)
dictGet(d, key, default) == IF key \in DOMAIN d THEN d[key] ELSE default

\* tagCount[key] = value
dictSet(d, key, value) ==
    IF key \in DOMAIN d THEN [d EXCEPT ![key] = value]
    ELSE d @@ (key :> value)

\* "tag_{}".format(name)
tagKey(name) == <<"t", "a", "g", "_">> \o name

RECURSIVE countTags_loop(_, _, _, _)
\* the loop of countTags from tags[i] on: the old value is read under the
\* tag's name and the new one is stored under its key
countTags_loop(tags, i, tagCount, custom) ==
    IF i > Len(tags) THEN tagCount
    ELSE IF ~custom /\ find(tags[i].name, <<".">>) > 0
    THEN countTags_loop(tags, i + 1, tagCount, custom)
    ELSE countTags_loop(tags, i + 1,
             dictSet(tagCount, tagKey(tags[i].name),
                     dictGet(tagCount, tags[i].name, 0) + 1),
             custom)

\* aguille.countTags(soup, custom=custom); agile.countTags(soup) is the
\* same function without the custom test, that is with custom = TRUE
countTags(soup, custom) ==
    Return([t |-> "dict",
            items |-> countTags_loop(findAllTags(soup), 1, <<>>, custom)])

-----------------------------------------------------------------------------
(* Text measurement and wrappable.                                         *)

FontCharWidth == 7

FontLineHeight == 20

\* the defaults of textDimensions: size="14sp", font="default"
DefaultSize == Str(<<"1", "4", "s", "p">>)

DefaultFont == Str(<<"d", "e", "f", "a", "u", "l", "t">>)

\* the default size in points, Dip.fromAndroid("14sp").toPoints(), as
\* textDimensions hands it on
DefaultPoints == 6

\* font.size(text) of a font of the given point size: FontCharWidth a
\* character and FontLineHeight a line at the default size, in proportion
\* at any other
font_size(text, points) ==
    <<(FontCharWidth * Len(text.s) * points) \div DefaultPoints,
      (FontLineHeight * points) \div DefaultPoints>>

\* the body of AndroidDevice._textDimensions: font.size wants a str
textDimensions_body(text, size, fontFamily) ==
    IF text.t # "str" THEN Raise("TypeError")
    ELSE Return(font_size(text, size))

\* functools.lru_cache() keeps this many results
lru_maxsize == 128

\* the cache of the memoized _textDimensions: its entries [key, val], least
\* recently used first; a key is <<text, size in points, font>>
lru_index(lru, key) ==
    IF \E i \in 1..Len(lru) : lru[i].key = key
    THEN CHOOSE i \in 1..Len(lru) : lru[i].key = key
    ELSE 0

lru_touch(lru, i) ==
    Append(SubSeq(lru, 1, i - 1) \o SubSeq(lru, i + 1, Len(lru)),
           lru[i])

lru_insert(lru, entry) ==
    Append(IF Len(lru) >= lru_maxsize THEN Tail(lru) ELSE lru, entry)

\* a cache that stores the results and runs the body all the same
lru_call_rerun(lru, key) ==
    [out |-> textDimensions_body(key[1], key[2], key[3]),
     cache |-> IF lru_index(lru, key) > 0
               THEN lru_touch(lru, lru_index(lru, key))
               ELSE IF textDimensions_body(key[1], key[2], key[3]).ok
               THEN lru_insert(lru,
                        [key |-> key,
                         val |-> textDimensions_body(key[1], key[2],
                                                     key[3]).v])
               ELSE lru,
     ran |-> TRUE]

\* self._textDimensions(text, size, font) through the cache: a hit returns
\* the stored result, a miss runs the body and stores what it returns; what
\* it raises is not stored.  ran tells whether the body ran.
lru_call(lru, key) ==
    IF lru_index(lru, key) > 0
    THEN [out |-> Return(lru[lru_index(lru, key)].val),
          cache |-> lru_touch(lru, lru_index(lru, key)),
          ran |-> FALSE]
    ELSE [out |-> textDimensions_body(key[1], key[2], key[3]),
          cache |-> IF textDimensions_body(key[1], key[2], key[3]).ok
                    THEN lru_insert(lru,
                             [key |-> key,
                              val |-> textDimensions_body(key[1], key[2],
                                                          key[3]).v])
                    ELSE lru,
          ran |-> TRUE]

\* device.textDimensions(text, size=size, font=font) on a device with the
\* given cache: the size is converted to points first
textDimensions_cached(lru, text, size, font) ==
    IF ~fromAndroid(size).ok
    THEN [out |-> fromAndroid(size), cache |-> lru, ran |-> FALSE]
    ELSE lru_call(lru, <<text, toPoints(fromAndroid(size).v.n), font>>)

\* a memo that keeps a failed measurement as an empty extent: the call
\* raises the first time and returns (0, 0) from then on
textDimensions_failureKept(device, text) ==
    IF device = None THEN Raise("AttributeError")
    ELSE IF /\ ~textDimensions_body(text, DefaultPoints, DefaultFont).ok
            /\ <<text, DefaultSize, DefaultFont>> \in DOMAIN runs
    THEN Return(<<0, 0>>)
    ELSE textDimensions_body(text, DefaultPoints, DefaultFont)

\* AndroidDevice.textDimensions(text) with the default size and font: what
\* it returns does not depend on the cache
textDimensions(device, text) ==
    IF device = None THEN Raise("AttributeError")
    ELSE textDimensions_body(text, DefaultPoints, DefaultFont)

\* the textDimensions calls wrappable makes
wrappableAsks(width, height, text, device) ==
    IF Str(wrap_content) \in {width, height} /\ device # None
    THEN <<[text |-> text, size |-> DefaultSize, font |-> DefaultFont]>>
    ELSE <<>>

\* one more run of the body of _textDimensions for a call triple
bump(count, triple) ==
    IF triple \in DOMAIN count THEN [count EXCEPT ![triple] = @ + 1]
    ELSE count @@ (triple :> 1)

RECURSIVE replay(_, _, _)
\* the cache and the runs of the body after the textDimensions calls
\* asks[i], asks[i+1], ... are made on memo = [cache, runs]
replay(memo, asks, i) ==
    IF i > Len(asks) THEN memo
    ELSE LET r == textDimensions_cached(memo.cache, asks[i].text,
                                        asks[i].size, asks[i].font)
         IN  replay([cache |-> r.cache,
                     runs |-> IF r.ran
                              THEN bump(memo.runs, <<asks[i].text,
                                                     asks[i].size,
                                                     asks[i].font>>)
                              ELSE memo.runs],
                    asks, i + 1)

wrappable(width, height, text, device) ==
    IF Str(wrap_content) \in {width, height}
    THEN LET dims == textDimensions(device, text)
         IN  IF ~dims.ok THEN dims
             ELSE Return(<<IF width = Str(wrap_content)
                           THEN IntV(dims.v[1] + dims.v[2]) ELSE width,
                           IF height = Str(wrap_content)
                           THEN IntV(dims.v[2] * 3) ELSE height>>)
    ELSE Return(<<width, height>>)

-----------------------------------------------------------------------------
(* The element classes.  A parse step yields [out |-> outcome, files |->   *)
(* the resource files it opened, asks |-> the textDimensions calls it made *)
(* in order].  An element's parent is the device (or                       *)
(* None) for the root and [t |-> "ref", path |-> position of the parent's  *)
(* node in the document] for a child.                                      *)

PR(out, files, asks) == [out |-> out, files |-> files, asks |-> asks]

Ref(path) == [t |-> "ref", path |-> path]

\* try: inheritProperty(value, parent, getFn)
\* except AttributeError: Dip.fromAndroid(value)
inheritOrConvert(value, parent, getFn) ==
    LET r == inheritProperty(value, parent, getFn)
    IN  IF r.ok THEN r
        ELSE IF r.exc = "AttributeError" THEN fromAndroid(value)
        ELSE r

\* try: inheritProperty(width, parent, lambda x: x.childGravity)
\* except AttributeError: gravity
inheritOrLiteral(value, parent, getFn, literal) ==
    LET r == inheritProperty(value, parent, getFn)
    IN  IF r.ok THEN r
        ELSE IF r.exc = "AttributeError" THEN Return(literal)
        ELSE r

Button_fromSoup(parent, parentRef, soup, resourcesPath, device) ==
    LET id     == soupItem(soup, "android:id")
        rawTxt == soupGet(soup, "android:text", None)
        text   == resource(rawTxt, resourcesPath)
        files  == resourceOpens(rawTxt, resourcesPath)
        width  == soupItem(soup, "android:layout_width")
        height == soupItem(soup, "android:layout_height")
    IN  IF ~id.ok THEN PR(id, {}, <<>>)
        ELSE IF ~text.ok THEN PR(text, files, <<>>)
        ELSE IF ~width.ok THEN PR(width, files, <<>>)
        ELSE IF ~height.ok THEN PR(height, files, <<>>)
        ELSE
        LET wrapped == wrappable(width.v, height.v, text.v, device)
            asks    == wrappableAsks(width.v, height.v, text.v, device)
        IN  IF ~wrapped.ok THEN PR(wrapped, files, asks)
            ELSE
            LET newWidth  == inheritOrConvert(wrapped.v[1], parent, "width")
                newHeight == inheritOrConvert(wrapped.v[2], parent, "height")
                gravity   == soupGet(soup, "android:layout_gravity",
                                     Str(match_parent))
                newGravity == inheritOrLiteral(wrapped.v[1], parent,
                                               "childGravity", gravity)
            IN  IF ~newWidth.ok THEN PR(newWidth, files, asks)
                ELSE IF ~newHeight.ok THEN PR(newHeight, files, asks)
                ELSE IF ~newGravity.ok THEN PR(newGravity, files, asks)
                ELSE PR(Return([t |-> "Button", id |-> id.v,
                                text |-> text.v,
                                width |-> newWidth.v,
                                height |-> newHeight.v,
                                gravity |-> newGravity.v,
                                parent |-> parentRef]), files, asks)

\* UnknownObject.fromSoup builds `new` and falls off the end of the
\* function: when nothing raises, the call returns None
UnknownObject_fromSoup(parent, parentRef, soup, resourcesPath, device) ==
    LET width  == soupItem(soup, "android:layout_width")
        height == soupItem(soup, "android:layout_height")
    IN  IF ~width.ok THEN PR(width, {}, <<>>)
        ELSE IF ~height.ok THEN PR(height, {}, <<>>)
        ELSE
        LET text    == soupItem(soup, "android:text")
            wrapped == IF text.ok
                       THEN wrappable(width.v, height.v, text.v, device)
                       ELSE Return(<<width.v, height.v>>)
            asks    == IF text.ok
                       THEN wrappableAsks(width.v, height.v, text.v, device)
                       ELSE <<>>
            newHeight == inheritOrConvert(height.v, parent, "height")
            newWidth  == inheritOrConvert(width.v, parent, "width")
        IN  IF ~wrapped.ok THEN PR(wrapped, {}, asks)
            ELSE IF ~newHeight.ok THEN PR(newHeight, {}, asks)
            ELSE IF ~newWidth.ok THEN PR(newWidth, {}, asks)
            ELSE PR(Return(None), {}, asks)

\* TableLayout(): a new instance, whose _children is the class attribute
TableLayout == [t |-> "TableLayout", _children |-> None]

\* TableRow(), Button(), LinearLayout(), UnknownObject(): new instances
Instance(cls) == [t |-> cls]

\* all([ type(child) is TableRow for child in children ])
allTableRows(children) ==
    \A i \in 1..Len(children) : children[i].t = "TableRow"

\* the property `children` of TableLayout: property(lambda self:
\* self._children), which has a getter and nothing else
TableLayout_children_get(self) == Return(self._children)

\* self.children = children: `children` has stayed the property without a
\* setter, since @children.setter gave a new property, bound to the name _
TableLayout_children_set(self, children) ==
    [out |-> Raise("AttributeError"), self |-> self]

\* self._ = children: the property that has the setter; the setter checks
\* the rows and then assigns to self.children
TableLayout_underscore_set(self, children) ==
    IF ~allTableRows(children)
    THEN [out |-> Raise("TypeError"), self |-> self]
    ELSE TableLayout_children_set(self, children)

\* the keys of the dispatch table of AndroidLayout.dispatchFromSoup
LayoutNames ==
    { <<"L", "i", "n", "e", "a", "r", "L", "a", "y", "o", "u", "t">>, <<"T", "a", "b", "l", "e", "L", "a", "y", "o", "u", "t">>, <<"F", "r", "a", "m", "e", "L", "a", "y", "o", "u", "t">>, <<"R", "e", "l", "a", "t", "i", "v", "e", "L", "a", "y", "o", "u", "t">> }

RECURSIVE dispatchFromSoup(_, _, _, _, _)
RECURSIVE findChildren(_, _, _, _, _, _, _, _, _)
RECURSIVE LinearLayout_fromSoup(_, _, _, _, _)

\* findChildren without its `except AttributeError: continue`
findChildren_uncaught(commonParent, path, soupChildren, resourcesPath, device, i, children, files, asks) ==
    IF i > Len(soupChildren) THEN PR(Return(children), files, asks)
    ELSE
    LET kid == dispatchFromSoup(commonParent, Append(path, i),
                                soupChildren[i], resourcesPath, device)
    IN  IF kid.out.ok
        THEN findChildren(commonParent, path, soupChildren, resourcesPath,
                          device, i + 1, Append(children, kid.out.v),
                          files \cup kid.files, asks \o kid.asks)
        ELSE IF kid.out.exc = "NotImplementedError"
        THEN findChildren(commonParent, path, soupChildren, resourcesPath,
                          device, i + 1, children, files \cup kid.files,
                          asks \o kid.asks)
        ELSE PR(kid.out, files \cup kid.files, asks \o kid.asks)

\* the loop of findChildren from child i on, with the children, the opened
\* files and the textDimensions calls collected so far
findChildren(commonParent, path, soupChildren, resourcesPath, device, i, children, files, asks) ==
    IF i > Len(soupChildren) THEN PR(Return(children), files, asks)
    ELSE
    LET kid == dispatchFromSoup(commonParent, Append(path, i),
                                soupChildren[i], resourcesPath, device)
    IN  IF kid.out.ok
        THEN findChildren(commonParent, path, soupChildren, resourcesPath,
                          device, i + 1, Append(children, kid.out.v),
                          files \cup kid.files, asks \o kid.asks)
        ELSE IF kid.out.exc \in {"AttributeError", "NotImplementedError"}
        THEN findChildren(commonParent, path, soupChildren, resourcesPath,
                          device, i + 1, children, files \cup kid.files,
                          asks \o kid.asks)
        ELSE PR(kid.out, files \cup kid.files, asks \o kid.asks)

LinearLayout_fromSoup(parent, path, soup, resourcesPath, device) ==
    LET new == [t |-> "LinearLayout",
                id |-> soupGet(soup, "android:id", None),
                height |-> findAll(soup, <<"a", "n", "d", "r", "o", "i", "d", ":", "l", "a", "y", "o", "u", "t", "_", "h", "e", "i", "g", "h", "t">>),
                width |-> findAll(soup, <<"a", "n", "d", "r", "o", "i", "d", ":", "l", "a", "y", "o", "u", "t", "_", "w", "i", "d", "t", "h">>),
                parent |-> IF path = <<>> THEN parent
                           ELSE Ref(SubSeq(path, 1, Len(path) - 1)),
                gravity |-> None,
                orientation |-> None,
                childGravity |-> None,
                children |-> <<>>]
        kids == findChildren(new, path, soup.kids, resourcesPath, device,
                             1, <<>>, {}, <<>>)
    IN  IF ~kids.out.ok THEN kids
        ELSE PR(Return([new EXCEPT !.children = kids.out.v]), kids.files,
                kids.asks)

AndroidLayout_dispatchFromSoup(parent, path, soup, resourcesPath, device) ==
    IF soup.name \notin LayoutNames THEN PR(Raise("KeyError"), {}, <<>>)
    ELSE IF soup.name = <<"L", "i", "n", "e", "a", "r", "L", "a", "y", "o", "u", "t">>
    THEN LinearLayout_fromSoup(parent, path, soup, resourcesPath, device)
    ELSE PR(Raise("NotImplementedError"), {}, <<>>)

AndroidObject_dispatchFromSoup(parent, path, soup, resourcesPath, device) ==
    LET parentRef == IF path = <<>> THEN parent
                     ELSE Ref(SubSeq(path, 1, Len(path) - 1))
    IN  IF soup.name = <<"B", "u", "t", "t", "o", "n">>
        THEN Button_fromSoup(parent, parentRef, soup, resourcesPath, device)
        ELSE UnknownObject_fromSoup(parent, parentRef, soup, resourcesPath,
                                    device)

\* AndroidElement.dispatchFromSoup; a NavigableString has no tag name to
\* call endswith on
dispatchFromSoup(parent, path, soup, resourcesPath, device) ==
    LET parent1 == IF parent = None THEN device ELSE parent
    IN  IF soup.k # "Tag" THEN PR(Raise("AttributeError"), {}, <<>>)
        ELSE IF endswith(soup.name, <<"L", "a", "y", "o", "u", "t">>)
        THEN AndroidLayout_dispatchFromSoup(parent1, path, soup,
                                            resourcesPath, device)
        ELSE AndroidObject_dispatchFromSoup(parent1, path, soup,
                                            resourcesPath, device)

\* the * operator: int (and its subclass Dip) times int is an int, a list
\* (a ResultSet is one) times an int is the list repeated, anything else is
\* a TypeError
IsNumber(v) == v.t \in {"int", "Dip"}

IsList(v) == v.t \in {"ResultSet", "list"}

repeated(items, n) ==
    IF n <= 0 \/ items = <<>> THEN <<>>
    ELSE [i \in 1..(n * Len(items)) |-> items[((i - 1) % Len(items)) + 1]]

mul(a, b) ==
    IF IsNumber(a) /\ IsNumber(b) THEN Return(IntV(a.n * b.n))
    ELSE IF IsList(a) /\ IsNumber(b)
    THEN Return([t |-> "list", items |-> repeated(a.items, b.n)])
    ELSE IF IsNumber(a) /\ IsList(b)
    THEN Return([t |-> "list", items |-> repeated(b.items, a.n)])
    ELSE Raise("TypeError")

\* the + of sum(): the running total is an int
add(total, v) ==
    IF IsNumber(v) THEN Return(IntV(total.n + v.n)) ELSE Raise("TypeError")

\* the / operator on two ints
truediv(a, b) ==
    IF ~(IsNumber(a) /\ IsNumber(b)) THEN Raise("TypeError")
    ELSE IF b.n = 0 THEN Raise("ZeroDivisionError")
    ELSE Return([t |-> "float", num |-> a.n, den |-> b.n])

\* Button.area
Button_area(self) == mul(self.width, self.height)

\* LinearLayout.area
LinearLayout_area(self) == mul(self.height, self.width)

\* obj.area() for whatever the parse returned
area(obj) ==
    IF obj.t = "Button" THEN Button_area(obj)
    ELSE IF obj.t = "LinearLayout" THEN LinearLayout_area(obj)
    ELSE Raise("AttributeError")

RECURSIVE sumButtonAreas(_, _, _)
\* sum(kid.area() for kid in self.children if type(kid) == Button), from
\* child i on
sumButtonAreas(children, i, total) ==
    IF i > Len(children) THEN Return(total)
    ELSE IF children[i].t # "Button"
    THEN sumButtonAreas(children, i + 1, total)
    ELSE LET a == Button_area(children[i])
         IN  IF ~a.ok THEN a
             ELSE IF ~add(total, a.v).ok THEN add(total, a.v)
             ELSE sumButtonAreas(children, i + 1, add(total, a.v).v)

\* LinearLayout.buttonRatio
buttonRatio(obj) ==
    IF obj.t # "LinearLayout" THEN Raise("AttributeError")
    ELSE LET buttonArea == sumButtonAreas(obj.children, 1, IntV(0))
         IN  IF ~buttonArea.ok THEN buttonArea
             ELSE IF ~LinearLayout_area(obj).ok THEN LinearLayout_area(obj)
             ELSE truediv(buttonArea.v, LinearLayout_area(obj).v)

RECURSIVE test_lexer(_, _, _, _, _)

\* layouts.append(r) for the outcome r of parsing layout i, and on to the
\* next layout
test_lexer_append(xmlLayouts, i, layouts, files, asks, r) ==
    IF ~r.out.ok THEN PR(r.out, files \cup r.files, asks \o r.asks)
    ELSE test_lexer(xmlLayouts, i + 1, Append(layouts, r.out.v),
                    files \cup r.files, asks \o r.asks)

\* test.py, "TESTING LEXER": the loop over xmlLayouts from layout i on, with
\* the layouts appended, the files opened and the textDimensions calls
\* made so far; nothing in the loop
\* catches what dispatchFromSoup raises
test_lexer(xmlLayouts, i, layouts, files, asks) ==
    IF i > Len(xmlLayouts) THEN PR(Return(layouts), files, asks)
    ELSE test_lexer_append(xmlLayouts, i, layouts, files, asks,
                           dispatchFromSoup(None, <<>>, xmlLayouts[i], None,
                                            galaxyS3))

-----------------------------------------------------------------------------
(* Inputs of Dip.fromAndroid.                                              *)

Nums == (-MaxNum)..MaxNum

SuffixSet == { dispatchEnds[i] : i \in 1..Len(dispatchEnds) }

CanonLengths == { str(n) \o suf : n \in Nums, suf \in SuffixSet }

FuzzAlphabet == {"5", "-", "d", "p", " "}

FuzzLengths == UNION { [1..n -> FuzzAlphabet] : n \in 0..MaxLen }

LengthStrings == CanonLengths \cup FuzzLengths

-----------------------------------------------------------------------------

-----------------------------------------------------------------------------
(* Inputs of resource, inheritable and inheritProperty.                    *)

HelloDoc == Doc(<<"r", "e", "s", "o", "u", "r", "c", "e", "s">>, <<Elem(<<"s", "t", "r", "i", "n", "g">>, <<"h", "e", "l", "l", "o">>, Str(<<"H", "i">>))>>)

\* a values directory as Android lays it out (strings.xml), with the same
\* document also under string.xml
DirValues ==
    Dir((<<"s", "t", "r", "i", "n", "g", "s", ".", "x", "m", "l">> :> HelloDoc) @@ (<<"s", "t", "r", "i", "n", "g", ".", "x", "m", "l">> :> HelloDoc))

\* a directory with a file named "@+string.xml" whose elements are named by
\* tag, and one whose document has no resources root
DirSentinel ==
    Dir((<<"@", "+", "s", "t", "r", "i", "n", "g", ".", "x", "m", "l">> :>
            Doc(<<"r", "e", "s", "o", "u", "r", "c", "e", "s">>,
                <<Elem(<<"s", "t", "r", "i", "n", "g">>, <<"h", "e", "l", "l", "o">>, Str(<<"H", "e", "y">>)),
                  Elem(<<"h", "e", "l", "l", "o">>, <<"g", "r", "e", "e", "t", "i", "n", "g">>, Str(<<"H", "i">>)),
                  Elem(<<"e", "m", "p", "t", "y">>, <<"e", "m", "p", "t", "y">>, None)>>))
        @@ (<<"@", "+", "p", "l", "u", "r", "a", "l", "s", ".", "x", "m", "l">> :> Doc(<<"p", "l", "u", "r", "a", "l", "s">>, <<>>)))

DirEmpty == Dir(<<>>)

ResourceDirs == {None, DirEmpty, DirValues, DirSentinel}

ResourceValues ==
    {None} \cup
    { Str(s) : s \in { <<"H", "i">>, <<>>, <<"@">>, <<"@", "s", "t", "r", "i", "n", "g", "/", "h", "e", "l", "l", "o">>,
                       <<"+", "@", "s", "t", "r", "i", "n", "g", "/", "h", "e", "l", "l", "o">>, <<"4", "8", "d", "p">>,
                       <<"@", "+", "i", "d", "/", "f", "o", "o">>, <<"@", "+", "i", "d">>, <<"@", "+", "i", "d", "e", "a", "/", "x">>,
                       <<"@", "+", "s", "t", "r", "i", "n", "g", "/", "h", "e", "l", "l", "o">>, <<"@", "+", "s", "t", "r", "i", "n", "g", "/", "m", "i", "s", "s", "i", "n", "g">>,
                       <<"@", "+", "s", "t", "r", "i", "n", "g", "/", "e", "m", "p", "t", "y">>, <<"@", "+", "p", "l", "u", "r", "a", "l", "s", "/", "h", "e", "l", "l", "o">>,
                       <<"@", "+", "c", "o", "l", "o", "r", "/", "r", "e", "d">>, <<"@", "+", "s", "t", "r", "i", "n", "g">>, <<"@", "+">> } }

ResourceCalls ==
    { [op |-> "resource", value |-> v, resourcesPath |-> d] :
          v \in ResourceValues, d \in ResourceDirs }

\* a layout as the parent: its height and width are whatever was assigned
SomeLayout ==
    [t |-> "LinearLayout", height |-> DipV(100), width |-> DipV(200),
     childGravity |-> None]

InheritParents == {None, galaxyS3, blankDevice, SomeLayout}

InheritValues ==
    {None, IntV(60), DipV(48)} \cup
    { Str(s) : s \in { match_parent, fill_parent, wrap_content, <<"4", "8", "d", "p">>,
                       <<"m", "a", "t", "c", "h", "_", "p", "a", "r", "e", "n", "t", " ">>, <<"M", "a", "t", "c", "h", "_", "P", "a", "r", "e", "n", "t">>, <<>> } }

Accessors == {"height", "width", "childGravity"}

InheritableCalls ==
    { [op |-> "inheritable", value |-> v, parent |-> p, getFn |-> g] :
          v \in InheritValues, p \in InheritParents, g \in Accessors }

InheritPropertyCalls ==
    { [op |-> "inheritProperty", value |-> v, parent |-> p, getFn |-> g] :
          v \in InheritValues, p \in InheritParents, g \in Accessors }

-----------------------------------------------------------------------------
(* Inputs of the parser: layout documents, resource directories, devices.  *)

Id(v) == "android:id" :> v

WH(w, h) == ("android:layout_width" :> w) @@ ("android:layout_height" :> h)

Text(v) == "android:text" :> v

Gravity(v) == "android:layout_gravity" :> v

FullAttrs == Id(<<"@", "+", "i", "d", "/", "o", "k">>) @@ WH(<<"4", "8", "d", "p">>, <<"4", "8", "d", "p">>)

ButtonKids ==
    { Tag(<<"B", "u", "t", "t", "o", "n">>, a, <<>>) :
        a \in { FullAttrs @@ Text(<<"H", "i">>),
                FullAttrs @@ Text(<<"@", "+", "s", "t", "r", "i", "n", "g", "/", "h", "e", "l", "l", "o">>),
                FullAttrs @@ Text(<<"@", "+", "s", "t", "r", "i", "n", "g", "/", "m", "i", "s", "s", "i", "n", "g">>),
                Id(<<"@", "+", "i", "d", "/", "o", "k">>) @@ WH(wrap_content, wrap_content)
                    @@ Text(<<"H", "i">>),
                Id(<<"@", "+", "i", "d", "/", "o", "k">>) @@ WH(match_parent, fill_parent),
                WH(<<"4", "8", "d", "p">>, <<"4", "8", "d", "p">>) } }

WidgetKids ==
    { Tag(<<"T", "e", "x", "t", "V", "i", "e", "w">>, a, <<>>) :
        a \in { FullAttrs,
                WH(wrap_content, <<"2", "0", "d", "p">>) @@ Text(<<"H", "i">>),
                "android:layout_height" :> <<"2", "0", "d", "p">> } }
    \cup { Tag(<<"T", "a", "b", "l", "e", "R", "o", "w">>, FullAttrs, <<>>) }

LayoutKids ==
    { Tag(n, FullAttrs, <<>>) :
        n \in { <<"G", "r", "i", "d", "L", "a", "y", "o", "u", "t">>, <<"R", "e", "l", "a", "t", "i", "v", "e", "L", "a", "y", "o", "u", "t">>, <<"F", "r", "a", "m", "e", "L", "a", "y", "o", "u", "t">>,
                <<"T", "a", "b", "l", "e", "L", "a", "y", "o", "u", "t">> } }

LeafKids == {NavigableString(<<"\n">>)} \cup ButtonKids \cup WidgetKids
                \cup LayoutKids

NestedKids ==
    { Tag(<<"L", "i", "n", "e", "a", "r", "L", "a", "y", "o", "u", "t">>, FullAttrs, kids) :
        kids \in { <<>>,
                   <<Tag(<<"B", "u", "t", "t", "o", "n">>, FullAttrs @@ Text(<<"H", "i">>), <<>>)>>,
                   <<Tag(<<"B", "u", "t", "t", "o", "n">>,
                         Id(<<"@", "+", "i", "d", "/", "o", "k">>) @@ WH(match_parent, fill_parent),
                         <<>>)>>,
                   <<Tag(<<"R", "e", "l", "a", "t", "i", "v", "e", "L", "a", "y", "o", "u", "t">>, FullAttrs, <<>>)>> } }

Kids == LeafKids \cup NestedKids

KidSeqs == UNION { [1..n -> Kids] : n \in 0..MaxKids }

\* roots that take their size from the device
MatchParentRoots ==
    { Tag(<<"L", "i", "n", "e", "a", "r", "L", "a", "y", "o", "u", "t">>,
          Id(<<"@", "+", "i", "d", "/", "o", "k">>) @@ WH(match_parent, fill_parent), kids) :
        kids \in { <<>>,
                   <<Tag(<<"B", "u", "t", "t", "o", "n">>, FullAttrs @@ Text(<<"H", "i">>), <<>>)>>,
                   <<Tag(<<"B", "u", "t", "t", "o", "n">>,
                         Id(<<"@", "+", "i", "d", "/", "o", "k">>) @@ WH(match_parent, fill_parent),
                         <<>>)>> } }
        \cup { Tag(<<"T", "e", "x", "t", "V", "i", "e", "w">>,
                   Id(<<"@", "+", "i", "d", "/", "o", "k">>) @@ WH(fill_parent, match_parent), <<>>) }

\* Buttons that take their width from the parent or give it, with an
\* android:layout_gravity of their own, a sentinel one or none
GravityButtons ==
    { Tag(<<"B", "u", "t", "t", "o", "n">>, Id(<<"@", "+", "i", "d", "/", "o", "k">>) @@ WH(w, <<"4", "8", "d", "p">>) @@ g, <<>>) :
        w \in {<<"4", "8", "d", "p">>, match_parent},
        g \in {<<>>, Gravity(<<"c", "e", "n", "t", "e", "r">>), Gravity(match_parent), Gravity(fill_parent)} }

\* a Button of GravityButtons as the root and as the child of a layout
GravityRoots ==
    GravityButtons \cup { Tag(<<"L", "i", "n", "e", "a", "r", "L", "a", "y", "o", "u", "t">>, FullAttrs, <<b>>) : b \in GravityButtons }

\* a Button without android:text that wraps its content
TextlessRoots ==
    { Tag(<<"B", "u", "t", "t", "o", "n">>, Id(<<"@", "+", "i", "d", "/", "o", "k">>) @@ WH(wrap_content, <<"4", "8", "d", "p">>), <<>>) }

Roots ==
    (Kids \ {NavigableString(<<"\n">>)})
        \cup { Tag(<<"L", "i", "n", "e", "a", "r", "L", "a", "y", "o", "u", "t">>, FullAttrs, kids) : kids \in KidSeqs }
        \cup MatchParentRoots
        \cup TextlessRoots
        \cup GravityRoots

ParseDirs == {None, DirValues, DirSentinel}

Devices == {None, galaxyS3, blankDevice}

DispatchCalls ==
    { [op |-> "dispatchFromSoup", soup |-> s, resourcesPath |-> d,
       device |-> dev] :
          s \in Roots, d \in ParseDirs, dev \in Devices }

\* the layouts of a batch: a layout of one Button, a RelativeLayout, a
\* LinearLayout around a RelativeLayout, and a parsed document, whose own
\* name is "[document]", around a layout
BatchLayouts ==
    { Tag(<<"L", "i", "n", "e", "a", "r", "L", "a", "y", "o", "u", "t">>, FullAttrs,
          <<Tag(<<"B", "u", "t", "t", "o", "n">>, FullAttrs @@ Text(<<"H", "i">>), <<>>)>>),
      Tag(<<"R", "e", "l", "a", "t", "i", "v", "e", "L", "a", "y", "o", "u", "t">>, FullAttrs, <<>>),
      Tag(<<"L", "i", "n", "e", "a", "r", "L", "a", "y", "o", "u", "t">>, FullAttrs,
          <<Tag(<<"R", "e", "l", "a", "t", "i", "v", "e", "L", "a", "y", "o", "u", "t">>, FullAttrs, <<>>)>>),
      Tag(<<"[", "d", "o", "c", "u", "m", "e", "n", "t", "]">>, <<>>,
          <<Tag(<<"L", "i", "n", "e", "a", "r", "L", "a", "y", "o", "u", "t">>, FullAttrs, <<>>)>>) }

LexerCalls ==
    { [op |-> "test_lexer", xmlLayouts |-> b] :
          b \in UNION { [1..n -> BatchLayouts] : n \in 0..MaxBatch } }

\* the trees area() and buttonRatio() are asked of: layouts of up to one
\* child, a layout of two Buttons, one of zero width, and single Buttons
MetricRoots ==
    { r \in Roots : r.name = <<"L", "i", "n", "e", "a", "r", "L", "a", "y", "o", "u", "t">> => Len(r.kids) <= 1 }
        \cup { Tag(<<"L", "i", "n", "e", "a", "r", "L", "a", "y", "o", "u", "t">>, FullAttrs,
                   <<Tag(<<"B", "u", "t", "t", "o", "n">>, FullAttrs @@ Text(<<"H", "i">>), <<>>),
                     Tag(<<"B", "u", "t", "t", "o", "n">>, FullAttrs @@ Text(<<"H", "i">>), <<>>)>>),
               Tag(<<"L", "i", "n", "e", "a", "r", "L", "a", "y", "o", "u", "t">>,
                   Id(<<"@", "+", "i", "d", "/", "o", "k">>) @@ WH(<<"0", "d", "p">>, <<"4", "8", "d", "p">>),
                   <<Tag(<<"B", "u", "t", "t", "o", "n">>, FullAttrs @@ Text(<<"H", "i">>), <<>>)>>) }

MetricCalls ==
    { [op |-> m, soup |-> s, resourcesPath |-> None, device |-> dev] :
          m \in {"area", "buttonRatio"}, s \in MetricRoots, dev \in Devices }

WrappableCalls ==
    { [op |-> "wrappable", width |-> Str(w), height |-> Str(h), text |-> t,
       device |-> dev] :
          w \in {wrap_content, match_parent, <<"4", "8", "d", "p">>},
          h \in {wrap_content, match_parent, <<"4", "8", "d", "p">>},
          t \in {None, Str(<<"H", "i">>), Str(<<>>)},
          dev \in Devices }

\* device profiles: the densities of the Android density buckets and of the
\* Galaxy S3, common screen sizes in pixels, and unset fields
DeviceDpis == {120, 160, 213, 240, 306, 320, 480, 640}

DeviceScreens == { <<240, 320>>, <<480, 800>>, <<720, 1280>>, <<1080, 1920>> }

DeviceProfiles ==
    { AndroidDevice(dpi, s[1], s[2]) :
          dpi \in {None} \cup { IntV(d) : d \in DeviceDpis },
          s \in {<<None, None>>}
                    \cup { <<IntV(p[1]), IntV(p[2])>> : p \in DeviceScreens } }

DevicePropertyCalls ==
    { [op |-> "deviceProperty", device |-> dev, name |-> n] :
          dev \in DeviceProfiles, n \in {"densityScalar", "width", "height"} }

\* the children of the root of a counted document
TagKids ==
    { Tag(n, FullAttrs, <<>>) : n \in { <<"B", "u", "t", "t", "o", "n">>, <<"T", "e", "x", "t", "V", "i", "e", "w">>, <<"t", "a", "g", "_", "B", "u", "t", "t", "o", "n">>, <<"a", ".", "B">> } }
        \cup { Tag(<<"L", "i", "n", "e", "a", "r", "L", "a", "y", "o", "u", "t">>, FullAttrs, <<Tag(<<"B", "u", "t", "t", "o", "n">>, FullAttrs, <<>>)>>),
               NavigableString(<<"\n">>) }

\* parsed layout documents: the document object around a LinearLayout
TagDocs ==
    { Tag(<<"[", "d", "o", "c", "u", "m", "e", "n", "t", "]">>, <<>>, <<Tag(<<"L", "i", "n", "e", "a", "r", "L", "a", "y", "o", "u", "t">>, FullAttrs, kids)>>) :
        kids \in UNION { [1..n -> TagKids] : n \in 0..MaxTags } }

CountTagsCalls ==
    { [op |-> "countTags", soup |-> s, custom |-> c] :
        s \in TagDocs, c \in BOOLEAN }

Pending == [ok |-> FALSE, exc |-> "pending"]

FromAndroidCalls == { [op |-> "fromAndroid", s |-> s] : s \in LengthStrings }

InchDens == {1, 3, 7, 64, 320}

InchesRoundTripCalls ==
    { [op |-> "inchesRoundTrip", x |-> Rat(a, b)] :
          a \in 0..MaxInchNum, b \in InchDens }

PointsRoundTripCalls ==
    { [op |-> "pointsRoundTrip", d |-> d] : d \in (-MaxDip)..MaxDip }

Calls ==
    FromAndroidCalls \cup InchesRoundTripCalls \cup PointsRoundTripCalls
        \cup ResourceCalls \cup InheritableCalls \cup InheritPropertyCalls
        \cup CountTagsCalls
        \cup DispatchCalls \cup LexerCalls \cup MetricCalls
        \cup WrappableCalls \cup DevicePropertyCalls

\* one call per behaviour: the arguments are drawn at the start, the action
\* named by call.op runs the whole function and records its outcome
Init ==
    /\ call \in Calls
    /\ pc = "start"
    /\ ret = Pending
    /\ opened = {}
    /\ cache = <<>>
    /\ runs = <<>>
    /\ table = TableLayout

\* the cache and the runs after the textDimensions calls asks
Memo(asks) == replay([cache |-> cache, runs |-> runs], asks, 1)

\* the call ends with the parse outcome r: its result, the files it opened
\* and the text measurements it asked for
Parsed(r) ==
    /\ ret' = r.out
    /\ opened' = r.files
    /\ cache' = Memo(r.asks).cache
    /\ runs' = Memo(r.asks).runs
    /\ pc' = "done"
    /\ UNCHANGED <<call, table>>

CallFromAndroid ==
    /\ pc = "start"
    /\ call.op = "fromAndroid"
    /\ ret' = fromAndroid(Str(call.s))
    /\ pc' = "done"
    /\ UNCHANGED <<call, opened, cache, runs, table>>

\* Dip.fromInches(x).toInches()
CallInchesRoundTrip ==
    /\ pc = "start"
    /\ call.op = "inchesRoundTrip"
    /\ ret' = Return(toInches(fromInches(call.x)))
    /\ pc' = "done"
    /\ UNCHANGED <<call, opened, cache, runs, table>>

\* Dip.fromPoints(Dip(d).toPoints())
CallPointsRoundTrip ==
    /\ pc = "start"
    /\ call.op = "pointsRoundTrip"
    /\ ret' = Return(DipV(fromPoints(toPoints(call.d))))
    /\ pc' = "done"
    /\ UNCHANGED <<call, opened, cache, runs, table>>

CallResource ==
    /\ pc = "start"
    /\ call.op = "resource"
    /\ ret' = resource(call.value, call.resourcesPath)
    /\ opened' = resourceOpens(call.value, call.resourcesPath)
    /\ pc' = "done"
    /\ UNCHANGED <<call, cache, runs, table>>

CallInheritable ==
    /\ pc = "start"
    /\ call.op = "inheritable"
    /\ ret' = inheritable(call.value, call.parent, call.getFn)
    /\ pc' = "done"
    /\ UNCHANGED <<call, opened, cache, runs, table>>

CallInheritProperty ==
    /\ pc = "start"
    /\ call.op = "inheritProperty"
    /\ ret' = inheritProperty(call.value, call.parent, call.getFn)
    /\ pc' = "done"
    /\ UNCHANGED <<call, opened, cache, runs, table>>

\* AndroidElement.dispatchFromSoup(None, soup, resourcesPath, device=device)
CallDispatchFromSoup ==
    /\ pc = "start"
    /\ call.op = "dispatchFromSoup"
    /\ Parsed(dispatchFromSoup(None, <<>>, call.soup, call.resourcesPath,
                                call.device))

\* test.py: for layout in xmlLayouts: layouts.append(dispatchFromSoup(...))
CallTestLexer ==
    /\ pc = "start"
    /\ call.op = "test_lexer"
    /\ Parsed(test_lexer(call.xmlLayouts, 1, <<>>, {}, <<>>))

\* r.area() and r.buttonRatio() for the outcome r of a parse
parsed_area(r) ==
    PR(IF r.out.ok THEN area(r.out.v) ELSE r.out, r.files, r.asks)

parsed_buttonRatio(r) ==
    PR(IF r.out.ok THEN buttonRatio(r.out.v) ELSE r.out, r.files, r.asks)

\* dispatchFromSoup(None, soup, resourcesPath, device=device).area()
CallArea ==
    /\ pc = "start"
    /\ call.op = "area"
    /\ Parsed(parsed_area(dispatchFromSoup(None, <<>>, call.soup,
                                           call.resourcesPath, call.device)))

\* dispatchFromSoup(None, soup, resourcesPath, device=device).buttonRatio()
CallButtonRatio ==
    /\ pc = "start"
    /\ call.op = "buttonRatio"
    /\ Parsed(parsed_buttonRatio(dispatchFromSoup(None, <<>>, call.soup,
                                                  call.resourcesPath,
                                                  call.device)))

CallWrappable ==
    /\ pc = "start"
    /\ call.op = "wrappable"
    /\ ret' = wrappable(call.width, call.height, call.text, call.device)
    /\ cache' = Memo(wrappableAsks(call.width, call.height, call.text,
                                   call.device)).cache
    /\ runs' = Memo(wrappableAsks(call.width, call.height, call.text,
                                  call.device)).runs
    /\ pc' = "done"
    /\ UNCHANGED <<call, opened, table>>

\* device.densityScalar, device.width, device.height
CallDeviceProperty ==
    /\ pc = "start"
    /\ call.op = "deviceProperty"
    /\ ret' = IF call.name = "densityScalar" THEN densityScalar(call.device)
              ELSE getattr(call.device, call.name)
    /\ pc' = "done"
    /\ UNCHANGED <<call, opened, cache, runs, table>>

\* countTags(soup, custom=custom)
CallCountTags ==
    /\ pc = "start"
    /\ call.op = "countTags"
    /\ ret' = countTags(call.soup, call.custom)
    /\ pc' = "done"
    /\ UNCHANGED <<call, opened, cache, runs, table>>

Next ==
    \/ CallFromAndroid
    \/ CallInchesRoundTrip
    \/ CallPointsRoundTrip
    \/ CallResource
    \/ CallInheritable
    \/ CallInheritProperty
    \/ CallDispatchFromSoup
    \/ CallTestLexer
    \/ CallArea
    \/ CallButtonRatio
    \/ CallWrappable
    \/ CallDeviceProperty
    \/ CallCountTags

Spec == Init /\ [][Next]_vars

-----------------------------------------------------------------------------
(* Properties.                                                             *)

-----------------------------------------------------------------------------
(* The memoized text measurement under a run of textDimensions calls on    *)
(* one device: texts never measured before, one after another, and between *)
(* them the calls of test.py with a size in centimetres and the same size  *)
(* in points, and a call without a text.                                   *)

HelloWorld == Str(<<"H", "e", "l", "l", "o", ",", " ", "w", "o", "r", "l", "d", "!">>)

\* test.py: textDimensions("Hello, world!", size="8cm") and size="227pt";
\* and the text of a Button that has no android:text
ProbeTriples ==
    { <<HelloWorld, Str(<<"8", "c", "m">>), DefaultFont>>,
      <<HelloWorld, Str(<<"2", "2", "7", "p", "t">>), DefaultFont>>,
      <<None, DefaultSize, DefaultFont>> }

\* the texts measured so far apart from those of ProbeTriples
NumTexts == Cardinality(DOMAIN runs \ ProbeTriples)

\* the k-th new text
NewText(k) == Str(str(k))

InitMemo ==
    /\ call = [op |-> "textDimensions", text |-> None, size |-> DefaultSize,
               font |-> DefaultFont]
    /\ pc = "start"
    /\ ret = Pending
    /\ opened = {}
    /\ cache = <<>>
    /\ runs = <<>>
    /\ table = TableLayout

\* galaxyS3.textDimensions(text, size=size, font=font)
TextDimensions(text, size, font) ==
    /\ call' = [op |-> "textDimensions", text |-> text, size |-> size,
                font |-> font]
    /\ LET r == textDimensions_cached(cache, text, size, font)
       IN  /\ ret' = r.out
           /\ cache' = r.cache
           /\ runs' = IF r.ran THEN bump(runs, <<text, size, font>>)
                      ELSE runs
    /\ pc' = "done"
    /\ UNCHANGED <<opened, table>>

MeasureNewText ==
    /\ NumTexts < MaxTexts
    /\ TextDimensions(NewText(NumTexts + 1), DefaultSize, DefaultFont)

\* the calls of test.py come before the new texts have grown past
\* MaxEarlyTexts in number, or once they are about to fill the cache
MeasureAgain ==
    \E t \in ProbeTriples :
        /\ NumTexts <= MaxEarlyTexts \/ NumTexts >= lru_maxsize - 1
        /\ t \in DOMAIN runs => runs[t] < MaxRuns
        /\ TextDimensions(t[1], t[2], t[3])

NextMemo ==
    \/ MeasureNewText
    \/ MeasureAgain

SpecMemo == InitMemo /\ [][NextMemo]_vars

-----------------------------------------------------------------------------
(* One document dispatched twice with the same resource directory and the  *)
(* same device: the second dispatch starts with the files read and the     *)
(* measurements cached by the first.                                       *)

InitAgain ==
    /\ call \in DispatchCalls
    /\ pc = "start"
    /\ ret = Pending
    /\ opened = {}
    /\ cache = <<>>
    /\ runs = <<>>
    /\ table = TableLayout

\* the second dispatch ends with the parse outcome r
ParsedAgain(r) ==
    /\ ret' = r.out
    /\ opened' = opened \cup r.files
    /\ cache' = Memo(r.asks).cache
    /\ runs' = Memo(r.asks).runs
    /\ pc' = "again"
    /\ UNCHANGED <<call, table>>

\* AndroidElement.dispatchFromSoup(None, soup, resourcesPath, device=device)
\* once more
CallDispatchAgain ==
    /\ pc = "done"
    /\ call.op = "dispatchFromSoup"
    /\ ParsedAgain(dispatchFromSoup(None, <<>>, call.soup,
                                    call.resourcesPath, call.device))

NextAgain ==
    \/ CallDispatchFromSoup
    \/ CallDispatchAgain

SpecAgain == InitAgain /\ [][NextAgain]_vars

-----------------------------------------------------------------------------
(* One TableLayout instance under assignments to its attributes children   *)
(* and _ and reads of children.                                            *)

ElementClasses == {"TableRow", "Button", "LinearLayout", "UnknownObject"}

\* the sequences of instances assigned
RowSeqs == UNION { [1..n -> { Instance(c) : c \in ElementClasses }] : n \in 0..MaxRows }

InitTable ==
    /\ call = [op |-> "TableLayout"]
    /\ pc = "start"
    /\ ret = Pending
    /\ opened = {}
    /\ cache = <<>>
    /\ runs = <<>>
    /\ table = TableLayout

\* the assignment ends with outcome r.out and leaves the instance r.self
Assigned(r) ==
    /\ ret' = r.out
    /\ table' = r.self
    /\ pc' = "done"
    /\ UNCHANGED <<opened, cache, runs>>

\* table.children = children
AssignChildren ==
    \E children \in RowSeqs :
        /\ call' = [op |-> "setattr", name |-> "children", value |-> children]
        /\ Assigned(TableLayout_children_set(table, children))

\* table._ = children
AssignUnderscore ==
    \E children \in RowSeqs :
        /\ call' = [op |-> "setattr", name |-> "_", value |-> children]
        /\ Assigned(TableLayout_underscore_set(table, children))

\* table.children
ReadChildren ==
    /\ call' = [op |-> "getattr", name |-> "children"]
    /\ ret' = TableLayout_children_get(table)
    /\ pc' = "done"
    /\ UNCHANGED <<opened, cache, runs, table>>

NextTable ==
    \/ AssignChildren
    \/ AssignUnderscore
    \/ ReadChildren

SpecTable == InitTable /\ [][NextTable]_vars

Done(op) == pc = "done" /\ call.op = op

Abs(k) == IF k < 0 THEN -k ELSE k

\* the Dip the unit table of the specification gives for n of unit suf
ExpectedDip(n, suf) ==
    IF suf \in {Sfx_dp, Sfx_dip, Sfx_sp, Sfx_sip} THEN n
    ELSE IF suf = Sfx_in THEN round(n * 160, 1)
    ELSE IF suf = Sfx_pt THEN round(n * 160, 72)
    ELSE IF suf = Sfx_pc THEN round(n * 160, 6)
    ELSE IF suf = Sfx_mm
         THEN (IF n < 0 THEN -mmRoundAbs(-n) ELSE mmRoundAbs(n))
    ELSE (IF n < 0 THEN -mmRoundAbs(-10 * n) ELSE mmRoundAbs(10 * n))

\* C1: Dip.fromAndroid maps the string of an integer n followed by a
\* recognized suffix to the canonical Dip: n for dp/dip/sp/sip, round(n*160)
\* for in, round(n/72*160) for pt, round(n/6*160) for pc,
\* round(n*0.0393700787402*160) for mm and the mm result of 10*n for cm;
\* "16dp" gives 16, "1in" gives 160, "10mm" gives 63, "72pt" gives 160.
C1_ParseLengthCanonical ==
    Done("fromAndroid") =>
        /\ \A suf \in SuffixSet :
               endswith(call.s, suf) =>
                   \A n \in Nums :
                       call.s = str(n) \o suf =>
                           ret = Return(DipV(ExpectedDip(n, suf)))
        /\ call.s = <<"1", "6", "d", "p">> => ret = Return(DipV(16))
        /\ call.s = <<"1", "i", "n">> => ret = Return(DipV(160))
        /\ call.s = <<"1", "0", "m", "m">> => ret = Return(DipV(63))
        /\ call.s = <<"7", "2", "p", "t">> => ret = Return(DipV(160))
        /\ call.s = <<"2", "c", "m">> => ret = Return(DipV(126))

C1_Witness ==
    /\ Done("fromAndroid")
    /\ call.s = <<"1", "0", "m", "m">>
    /\ ret = Return(DipV(63))

\* what the specification of parseLength accepts: after the spaces are
\* removed the string ends in a recognized suffix and the whole text before
\* that trailing suffix is an integer literal
WellFormedLength(s0) ==
    LET s == removeSpaces(s0)
    IN  \E suf \in SuffixSet :
            /\ endswith(s, suf)
            /\ int(SubSeq(s, 1, Len(s) - Len(suf))).ok

\* C2: Dip.fromAndroid fails with ValueError for every string that does not
\* end in a recognized suffix or whose whole text before the trailing suffix
\* is not an integer literal; it never returns a Dip for such a string.
C2_RejectsMalformed ==
    (Done("fromAndroid") /\ ~WellFormedLength(call.s)) =>
        ret = Raise("ValueError")

\* C3: converting a non-negative length in inches to Dip and back loses less
\* than one dip, abs(Dip.fromInches(x).toInches() - x) < 1/160, and
\* converting a Dip d to points and back recovers a value within 1 of d.
C3_RoundTripWithinOneDip ==
    /\ Done("inchesRoundTrip") =>
           160 * Abs(ret.v.num * call.x.den - call.x.num * ret.v.den)
               < ret.v.den * call.x.den
    /\ Done("pointsRoundTrip") => Abs(ret.v.n - call.d) <= 1

\* a lossy round trip: the recovered length differs from x
C3_Witness ==
    /\ Done("inchesRoundTrip")
    /\ call.x = Rat(1, 3)
    /\ ret.v = Rat(53, 160)

\* C4: android.resource returns None for None, returns every value that
\* does not start with "@+" unchanged without opening any resource file, and
\* fails with AssertionError for every value starting with "@+id".
C4_ResourcePassthrough ==
    Done("resource") =>
        /\ call.value = None => (ret = Return(None) /\ opened = {})
        /\ (call.value # None /\ ~startswith(call.value.s, <<"@", "+">>)) =>
               (ret = Return(call.value) /\ opened = {})
        /\ (call.value # None /\ startswith(call.value.s, <<"@", "+", "i", "d">>)) =>
               ret = Raise("AssertionError")

C4_Witness ==
    /\ Done("resource")
    /\ call.value = Str(<<"@", "+", "i", "d", "/", "f", "o", "o">>)
    /\ call.resourcesPath = DirValues
    /\ ret = Raise("AssertionError")

\* the element of doc whose name attribute is key (0 if none)
NamedElem(doc, key) ==
    LET hits == { i \in 1..Len(doc.elems) : doc.elems[i].name = key }
    IN  IF hits = {} THEN 0
        ELSE CHOOSE i \in hits : \A j \in hits : i <= j

\* C5: for "@+<type>/<key>" (type not "id") the resolver strips "@+", opens
\* <resourceDir>/<type>.xml and returns the text of the element whose name
\* attribute is <key>; with <string name="hello">Hi</string> in the values
\* directory, resolve("@+string/hello", dir) returns "Hi".
C5_ResolvesReference ==
    (/\ Done("resource")
     /\ call.value # None
     /\ startswith(call.value.s, <<"@", "+">>)
     /\ ~startswith(call.value.s, <<"@", "+", "i", "d">>)
     /\ call.resourcesPath # None)
    => LET parts == split1(SubSeq(call.value.s, 3, Len(call.value.s)), <<"/">>)
           file  == parts[1] \o <<".", "x", "m", "l">>
       IN  (/\ Len(parts) = 2
            /\ file \in DOMAIN call.resourcesPath.files
            /\ NamedElem(call.resourcesPath.files[file], parts[2]) # 0)
           => LET doc == call.resourcesPath.files[file]
              IN  /\ ret = Return(doc.elems[NamedElem(doc, parts[2])].string)
                  /\ opened = {file}

\* C7: the inheritance resolver returns accessor(parent) when the value is
\* "match_parent" or "fill_parent" and returns every other value unchanged
\* ("48dp" stays "48dp") without calling the accessor: also for a parent on
\* which the accessor would raise.
C7_InheritableResolves ==
    Done("inheritable") =>
        /\ call.value \in {Str(match_parent), Str(fill_parent)} =>
               ret = getattr(call.parent, call.getFn)
        /\ call.value \notin {Str(match_parent), Str(fill_parent)} =>
               ret = Return(call.value)
        /\ call.value = Str(<<"4", "8", "d", "p">>) => ret = Return(Str(<<"4", "8", "d", "p">>))

C7_Witness ==
    /\ Done("inheritable")
    /\ call.value = Str(fill_parent)
    /\ call.parent = galaxyS3
    /\ call.getFn = "height"
    /\ ret = Return(DipV(669))

\* C8 as claimed: android.inheritProperty fails with NotInheritable
\* (AttributeError) when the value is "match_parent" or "fill_parent",
\* instead of resolving it against the parent.
C8_StrictFailsOnSentinel ==
    (Done("inheritProperty")
        /\ call.value \in {Str(match_parent), Str(fill_parent)})
    => ret = Raise("AttributeError")

\* C8 amended: android.inheritProperty returns getFn(parent) when the value
\* is "match_parent" or "fill_parent" and fails with AttributeError for
\* every other value.
C8_InheritPropertyComplains ==
    Done("inheritProperty") =>
        /\ call.value \in {Str(match_parent), Str(fill_parent)} =>
               ret = getattr(call.parent, call.getFn)
        /\ call.value \notin {Str(match_parent), Str(fill_parent)} =>
               ret = Raise("AttributeError")

C8_Witness ==
    /\ Done("inheritProperty")
    /\ call.value = Str(<<"4", "8", "d", "p">>)
    /\ call.parent = galaxyS3
    /\ ret = Raise("AttributeError")

IsTagNamed(soup, name) == soup.k = "Tag" /\ soup.name = name

\* C6: when a Button's android:text is a resource reference whose document
\* or key is absent, the resolution error leaves the element's construction:
\* findChildren never swallows it, so a parse of a LinearLayout that returns
\* a tree has resolved the text of every Button child it constructed.
C6_ResourceFailurePropagates ==
    (/\ Done("dispatchFromSoup")
     /\ IsTagNamed(call.soup, <<"L", "i", "n", "e", "a", "r", "L", "a", "y", "o", "u", "t">>)
     /\ ret.ok)
    => \A i \in 1..Len(call.soup.kids) :
           LET kid == call.soup.kids[i]
           IN  (/\ IsTagNamed(kid, <<"B", "u", "t", "t", "o", "n">>)
                /\ "android:id" \in DOMAIN kid.attrs
                /\ "android:text" \in DOMAIN kid.attrs)
               => resource(Str(kid.attrs["android:text"]),
                           call.resourcesPath).ok

\* C9: dispatching a node whose tag name does not end in "Layout" and is not
\* "Button" returns an UnknownObject that carries the node's width and
\* height, never None, so every entry of a layout's children is an element.
C9_UnknownObjectReturned ==
    (/\ Done("dispatchFromSoup")
     /\ call.soup.k = "Tag"
     /\ ~endswith(call.soup.name, <<"L", "a", "y", "o", "u", "t">>)
     /\ call.soup.name # <<"B", "u", "t", "t", "o", "n">>
     /\ ret.ok)
    => /\ ret.v.t = "UnknownObject"
       /\ {"width", "height"} \subseteq DOMAIN ret.v

\* a child that differs from a plain Button only in its tag name: it has an
\* id, literal dp width and height, no resource reference and no children
PlainKid(kid) ==
    /\ kid.k = "Tag"
    /\ kid.kids = <<>>
    /\ {"android:id", "android:layout_width", "android:layout_height"}
           \subseteq DOMAIN kid.attrs
    /\ kid.attrs["android:layout_width"] = <<"4", "8", "d", "p">>
    /\ kid.attrs["android:layout_height"] = <<"4", "8", "d", "p">>
    /\ "android:text" \in DOMAIN kid.attrs =>
           ~startswith(kid.attrs["android:text"], <<"@">>)

NumButtons(seq) == Cardinality({ i \in 1..Len(seq) : seq[i].t = "Button" })

NumButtonTags(kids) ==
    Cardinality({ i \in 1..Len(kids) : IsTagNamed(kids[i], <<"B", "u", "t", "t", "o", "n">>) })

\* C10: whatever the tag names of its children (recognized or not, also
\* names ending in "Layout" that the layout table lacks), the parse of a
\* LinearLayout is not aborted: no error escapes findChildren and every
\* sibling Button is still parsed.
C10_AnyTagNeverAborts ==
    (/\ Done("dispatchFromSoup")
     /\ IsTagNamed(call.soup, <<"L", "i", "n", "e", "a", "r", "L", "a", "y", "o", "u", "t">>)
     /\ \A i \in 1..Len(call.soup.kids) : PlainKid(call.soup.kids[i]))
    => /\ ret.ok
       /\ NumButtons(ret.v.children) = NumButtonTags(call.soup.kids)

\* a node UnknownObject.fromSoup handles: a tag that is neither a layout nor
\* a Button
IsUnknownWidget(soup) ==
    /\ soup.k = "Tag"
    /\ ~endswith(soup.name, <<"L", "a", "y", "o", "u", "t">>)
    /\ soup.name # <<"B", "u", "t", "t", "o", "n">>

\* such a node without android:layout_width or without android:layout_height,
\* whose remaining attributes give no other reason to fail
LacksDimension(soup) ==
    /\ IsUnknownWidget(soup)
    /\ ~({"android:layout_width", "android:layout_height"}
             \subseteq DOMAIN soup.attrs)
    /\ "android:text" \notin DOMAIN soup.attrs
    /\ \A a \in DOMAIN soup.attrs \cap
                {"android:layout_width", "android:layout_height"} :
           fromAndroid_strChars(soup.attrs[a]).ok

\* C11: UnknownObject.fromSoup tolerates a node that lacks
\* android:layout_width and/or android:layout_height: dispatching such a
\* node raises nothing, and the parse of a LinearLayout whose other children
\* are plain goes on to return a tree.
C11_UnknownToleratesMissing ==
    Done("dispatchFromSoup") =>
        /\ LacksDimension(call.soup) => ret.ok
        /\ (/\ IsTagNamed(call.soup, <<"L", "i", "n", "e", "a", "r", "L", "a", "y", "o", "u", "t">>)
            /\ \A i \in 1..Len(call.soup.kids) :
                   \/ LacksDimension(call.soup.kids[i])
                   \/ /\ PlainKid(call.soup.kids[i])
                      /\ IsTagNamed(call.soup.kids[i], <<"B", "u", "t", "t", "o", "n">>))
           => ret.ok

\* the layout classes whose fromSoup raises NotImplementedError
UnsupportedLayouts ==
    { <<"F", "r", "a", "m", "e", "L", "a", "y", "o", "u", "t">>, <<"T", "a", "b", "l", "e", "L", "a", "y", "o", "u", "t">>, <<"T", "a", "b", "l", "e", "R", "o", "w">>, <<"R", "e", "l", "a", "t", "i", "v", "e", "L", "a", "y", "o", "u", "t">> }

\* C12: dispatching a root node whose tag is FrameLayout, TableLayout,
\* TableRow or RelativeLayout fails with NotImplementedError, and no element
\* is constructed.
C12_UnsupportedLayoutsRaise ==
    (/\ Done("dispatchFromSoup")
     /\ call.soup.k = "Tag"
     /\ call.soup.name \in UnsupportedLayouts)
    => ret = Raise("NotImplementedError")

\* what parsing one layout of a batch on its own gives
AloneOutcome(layout) == dispatchFromSoup(None, <<>>, layout, None, galaxyS3).out

\* C13: in a batch parsed one layout after another, a NotImplementedError
\* raised for a layout (a RelativeLayout at its root or nested) ends that
\* layout only: the loop goes on and returns the trees of all the layouts
\* that parse, in order.
C13_BatchSkipsUnsupported ==
    (/\ Done("test_lexer")
     /\ \A i \in 1..Len(call.xmlLayouts) :
            \/ AloneOutcome(call.xmlLayouts[i]).ok
            \/ AloneOutcome(call.xmlLayouts[i]) = Raise("NotImplementedError"))
    => /\ ret.ok
       /\ LET parsed == SelectSeq(call.xmlLayouts,
                                  LAMBDA l : AloneOutcome(l).ok)
          IN  /\ Len(ret.v) = Len(parsed)
              /\ \A i \in 1..Len(parsed) : ret.v[i] = AloneOutcome(parsed[i]).v

\* the child nodes findChildren builds an element from
RecognizedNode(node) ==
    node.k = "Tag" /\ node.name \in { <<"B", "u", "t", "t", "o", "n">>, <<"L", "i", "n", "e", "a", "r", "L", "a", "y", "o", "u", "t">> }

\* a child node of the kinds the claim is about: a text node, a Button with
\* an id and literal dimensions, or a nested LinearLayout
ChildNodeOK(node) ==
    \/ node.k # "Tag"
    \/ IsTagNamed(node, <<"B", "u", "t", "t", "o", "n">>) /\ PlainKid(node)
    \/ IsTagNamed(node, <<"L", "i", "n", "e", "a", "r", "L", "a", "y", "o", "u", "t">>)

ElementClass(name) == IF name = <<"B", "u", "t", "t", "o", "n">> THEN "Button" ELSE "LinearLayout"

\* element el is the one built from child node `node` of the root
BuiltFrom(el, node) ==
    /\ el.t = ElementClass(node.name)
    /\ el.id = Str(node.attrs["android:id"])
    /\ el.parent = Ref(<<>>)
    /\ (el.t = "Button" /\ "android:text" \in DOMAIN node.attrs)
           => el.text = Str(node.attrs["android:text"])
    /\ el.t = "LinearLayout"
           => Len(el.children) =
                  Cardinality({ i \in 1..Len(node.kids) :
                                    RecognizedNode(node.kids[i]) })

LiteralLayout(soup) ==
    /\ IsTagNamed(soup, <<"L", "i", "n", "e", "a", "r", "L", "a", "y", "o", "u", "t">>)
    /\ {"android:layout_width", "android:layout_height"}
           \subseteq DOMAIN soup.attrs
    /\ fromAndroid_strChars(soup.attrs["android:layout_width"]).ok
    /\ fromAndroid_strChars(soup.attrs["android:layout_height"]).ok
    /\ \A i \in 1..Len(soup.kids) :
           IsTagNamed(soup.kids[i], <<"B", "u", "t", "t", "o", "n">>) /\ PlainKid(soup.kids[i])

\* height x width of a node with literal dimensions, in Dip
LiteralArea(soup) ==
    fromAndroid_strChars(soup.attrs["android:layout_height"]).v.n
        * fromAndroid_strChars(soup.attrs["android:layout_width"]).v.n

RECURSIVE LiteralAreaSum(_, _)
LiteralAreaSum(kids, i) ==
    IF i > Len(kids) THEN 0
    ELSE LiteralArea(kids[i]) + LiteralAreaSum(kids, i + 1)

\* C15: for a LinearLayout parsed from a node with literal layout_height and
\* layout_width, area() is height x width, and buttonRatio() is the sum of
\* the areas of its Button children divided by area() (1.0 when the one
\* Button fills the layout), ZeroDivisionError when the area is zero.
C15_AreaAndButtonRatio ==
    /\ (Done("area") /\ LiteralLayout(call.soup))
           => /\ ret.ok
              /\ IsNumber(ret.v)
              /\ ret.v.n = LiteralArea(call.soup)
    /\ (Done("buttonRatio") /\ LiteralLayout(call.soup))
           => IF LiteralArea(call.soup) = 0
              THEN ret = Raise("ZeroDivisionError")
              ELSE /\ ret.ok
                   /\ ret.v.t = "float"
                   /\ ret.v.num * LiteralArea(call.soup)
                          = LiteralAreaSum(call.soup.kids, 1) * ret.v.den

\* a Button node with an id, a literal text and dimensions that are
\* wrap_content or a literal, at least one of them wrap_content
WrapButton(node) ==
    /\ IsTagNamed(node, <<"B", "u", "t", "t", "o", "n">>)
    /\ {"android:id", "android:text", "android:layout_width",
        "android:layout_height"} \subseteq DOMAIN node.attrs
    /\ ~startswith(node.attrs["android:text"], <<"@">>)
    /\ \A a \in {"android:layout_width", "android:layout_height"} :
           node.attrs[a] \in {wrap_content, <<"4", "8", "d", "p">>}
    /\ wrap_content \in { node.attrs["android:layout_width"],
                          node.attrs["android:layout_height"] }

\* el is a Button sized from the measured text of node: three line heights
\* high, the text's width plus one line height wide
WrapSized(el, node) ==
    /\ el.t = "Button"
    /\ node.attrs["android:layout_height"] = wrap_content
           => IsNumber(el.height) /\ el.height.n = 3 * FontLineHeight
    /\ node.attrs["android:layout_width"] = wrap_content
           => /\ IsNumber(el.width)
              /\ el.width.n = FontCharWidth * Len(node.attrs["android:text"])
                                  + FontLineHeight

\* C16: with a device that measures text as (w, h), a Button whose
\* layout_height is "wrap_content" is constructed with height 3 x h (and
\* with width w + h when its layout_width is "wrap_content" too), and it is
\* among its parent's children.
C16_WrapContentButton ==
    (Done("dispatchFromSoup") /\ call.device # None) =>
        /\ WrapButton(call.soup)
               => ret.ok /\ WrapSized(ret.v, call.soup)
        /\ (/\ IsTagNamed(call.soup, <<"L", "i", "n", "e", "a", "r", "L", "a", "y", "o", "u", "t">>)
            /\ \A i \in 1..Len(call.soup.kids) :
                   WrapButton(call.soup.kids[i]))
               => /\ ret.ok
                  /\ Len(ret.v.children) = Len(call.soup.kids)
                  /\ \A i \in 1..Len(call.soup.kids) :
                         WrapSized(ret.v.children[i], call.soup.kids[i])

\* C17: without a device auto-sizing is skipped, not failed: wrappable hands
\* back the width and height it was given, whatever they are, and a Button
\* with literal dimensions is built with its width and height in Dip.
C17_NoDeviceSkipsAutoSizing ==
    /\ (Done("wrappable") /\ call.device = None)
           => ret = Return(<<call.width, call.height>>)
    /\ (/\ Done("dispatchFromSoup")
        /\ call.device = None
        /\ call.resourcesPath = None
        /\ IsTagNamed(call.soup, <<"B", "u", "t", "t", "o", "n">>)
        /\ PlainKid(call.soup))
           => /\ ret.ok
              /\ ret.v.width = DipV(48)
              /\ ret.v.height = DipV(48)

\* the node's raw attribute a is one of the inheritance sentinels
HasSentinel(node, a) ==
    a \in DOMAIN node.attrs /\ node.attrs[a] \in {match_parent, fill_parent}

\* el, an element built from node, took every dimension that node marks
\* with a sentinel from the width w and height h of its parent
InheritsFrom(el, node, w, h) ==
    el.t # "None" =>
        /\ HasSentinel(node, "android:layout_width") => el.width = w
        /\ HasSentinel(node, "android:layout_height") => el.height = h

\* C18: in a tree parsed with the Galaxy S3 profile, a root element whose
\* raw layout_width or layout_height is "match_parent" or "fill_parent" has
\* the device's width or height in Dip, and a child whose raw dimension is a
\* sentinel has the resolved Dip value of its parent.
C18_MatchParentInherits ==
    (/\ Done("dispatchFromSoup")
     /\ call.device = galaxyS3
     /\ call.soup.k = "Tag"
     /\ ret.ok)
    => /\ InheritsFrom(ret.v, call.soup, DipV(376), DipV(669))
       /\ (/\ IsTagNamed(call.soup, <<"L", "i", "n", "e", "a", "r", "L", "a", "y", "o", "u", "t">>)
           /\ Len(ret.v.children) = Len(call.soup.kids))
              => \A i \in 1..Len(call.soup.kids) :
                     /\ InheritsFrom(ret.v.children[i], call.soup.kids[i],
                                     ret.v.width, ret.v.height)
                     /\ (/\ ret.v.children[i].t # "None"
                         /\ HasSentinel(call.soup.kids[i],
                                        "android:layout_width"))
                            => ret.v.children[i].width.t = "Dip"
                     /\ (/\ ret.v.children[i].t # "None"
                         /\ HasSentinel(call.soup.kids[i],
                                        "android:layout_height"))
                            => ret.v.children[i].height.t = "Dip"

\* C19: densityScalar is densityDpi / 160 and raises ValueError when
\* densityDpi is unset; width and height are round(widthPixels /
\* densityScalar) and round(heightPixels / densityScalar) in Dip and raise
\* the same error when densityDpi is unset; the Galaxy S3 (306 dpi, 720 x
\* 1280 pixels) is 376 wide and 669 high.
C19_DeviceProfile ==
    Done("deviceProperty") =>
        LET dev == call.device
        IN  /\ dev.densityDpi = None => ret = Raise("ValueError")
            /\ (dev.densityDpi # None /\ call.name = "densityScalar")
                   => /\ ret.ok
                      /\ ret.v.num * 160 = dev.densityDpi.n * ret.v.den
            /\ (/\ dev.densityDpi # None
                /\ call.name = "width"
                /\ dev.widthPixels # None)
                   => ret = Return(DipV(round(dev.widthPixels.n * 160,
                                              dev.densityDpi.n)))
            /\ (/\ dev.densityDpi # None
                /\ call.name = "height"
                /\ dev.heightPixels # None)
                   => ret = Return(DipV(round(dev.heightPixels.n * 160,
                                              dev.densityDpi.n)))
            /\ (dev = galaxyS3 /\ call.name = "width")
                   => ret = Return(DipV(376))
            /\ (dev = galaxyS3 /\ call.name = "height")
                   => ret = Return(DipV(669))

\* the width of the Galaxy S3 has been read and is 376 Dip
C19_Witness ==
    /\ Done("deviceProperty")
    /\ call.device = galaxyS3
    /\ call.name = "width"
    /\ ret = Return(DipV(376))

\* the cache key of a textDimensions call
KeyOf(c) == <<c.text, toPoints(fromAndroid(c.size).v.n), c.font>>

\* C20 as claimed: over any sequence of textDimensions calls on one device
\* the body of _textDimensions has run at most once for each distinct
\* (text, size, font).
C20_MeasuredOncePerTriple ==
    \A t \in DOMAIN runs : runs[t] <= 1

\* C20: a textDimensions call whose (text, size in points, font) is among
\* the lru_maxsize most recently used measured keys does not run the body of
\* _textDimensions and returns the (w, h) stored for it; and whenever a call
\* returns, it returns the (w, h) its text, size and font determine.
C20_CachedNotMeasuredAgain ==
    [][/\ (pc' = "done" /\ call'.op = "textDimensions" /\ ret'.ok)
           => ret'.v = font_size(call'.text, KeyOf(call')[2])
       /\ (/\ pc' = "done"
           /\ call'.op = "textDimensions"
           /\ fromAndroid(call'.size).ok
           /\ lru_index(cache, KeyOf(call')) > 0)
           => /\ runs' = runs
              /\ ret' = Return(cache[lru_index(cache, KeyOf(call'))].val)
              /\ Len(cache') = Len(cache)]_vars

\* "Hello, world!" has been measured at 8cm, and the call with 227pt, the
\* same size in points, has returned the same (w, h) without a run of the
\* body
C20_Witness ==
    /\ Done("textDimensions")
    /\ call.text = HelloWorld
    /\ call.size = Str(<<"2", "2", "7", "p", "t">>)
    /\ <<HelloWorld, Str(<<"8", "c", "m">>), DefaultFont>> \in DOMAIN runs
    /\ <<HelloWorld, Str(<<"2", "2", "7", "p", "t">>), DefaultFont>> \notin DOMAIN runs
    /\ ret = Return(font_size(HelloWorld, 227))

C22_TableLayoutChildren ==
    /\ table._children # None => allTableRows(table._children)
    /\ (Done("setattr") /\ call.name = "children") =>
           IF allTableRows(call.value)
           THEN /\ ret.ok
                /\ TableLayout_children_get(table) = Return(call.value)
           ELSE ret = Raise("TypeError")

\* the number of tags called name in the document
Occurrences(soup, name) ==
    Cardinality({ i \in 1..Len(findAllTags(soup)) : findAllTags(soup)[i].name = name })

\* the names the tags of the counted documents can have
TagNames == { <<"L", "i", "n", "e", "a", "r", "L", "a", "y", "o", "u", "t">>, <<"B", "u", "t", "t", "o", "n">>, <<"T", "e", "x", "t", "V", "i", "e", "w">>, <<"t", "a", "g", "_", "B", "u", "t", "t", "o", "n">>, <<"a", ".", "B">>, <<"T", "a", "b", "l", "e", "R", "o", "w">> }

\* C23 as claimed: countTags maps "tag_t" to the number of tags called t in
\* the document, for every name t that occurs, and has no entry for a name
\* that does not occur.
C23_CountTagsFrequency ==
    (Done("countTags") /\ call.custom) =>
        /\ ret.ok
        /\ \A t \in TagNames :
               IF Occurrences(call.soup, t) > 0
               THEN /\ tagKey(t) \in DOMAIN ret.v.items
                    /\ ret.v.items[tagKey(t)] = Occurrences(call.soup, t)
               ELSE tagKey(t) \notin DOMAIN ret.v.items

\* the gravity the claim gives the Button el built from node under parent:
\* the node's own android:layout_gravity when it has one that is not a
\* sentinel; otherwise the parent's childGravity when the parent has one
\* (a childGravity of None may count as not having one), and the literal
\* attribute value, "match_parent" when absent, when it has none
GravityAsClaimed(el, node, parent) ==
    LET literal == soupGet(node, "android:layout_gravity", Str(match_parent))
        inherited == getattr(parent, "childGravity")
    IN  IF ~IsInheritSentinel(literal) THEN el.gravity = literal
        ELSE IF inherited.ok
        THEN \/ el.gravity = inherited.v
             \/ inherited.v = None /\ el.gravity = literal
        ELSE el.gravity = literal

\* C24 as claimed: the gravity of a parsed Button, as the root under the
\* device or as the only child of a LinearLayout, is the one its own
\* android:layout_gravity and its parent give; its width has no part in it.
C24_GravityFromOwnAttribute ==
    (Done("dispatchFromSoup") /\ ret.ok) =>
        /\ ret.v.t = "Button"
               => GravityAsClaimed(ret.v, call.soup, call.device)
        /\ (/\ ret.v.t = "LinearLayout"
            /\ Len(call.soup.kids) = 1
            /\ IsTagNamed(call.soup.kids[1], <<"B", "u", "t", "t", "o", "n">>)
            /\ Len(ret.v.children) = 1)
               => GravityAsClaimed(ret.v.children[1], call.soup.kids[1], ret.v)

====
